---- MODULE Spec2Model ----
(***************************************************************************)
(* The combination servers of Redben10/comb.                               *)
(*                                                                         *)
(*  - the session server (src/unnamed/part_002, the successor of           *)
(*    src/server.js): every handler loads the whole JSON file, works on    *)
(*    its private snapshot and writes the whole snapshot back. Handlers    *)
(*    are async functions: they interleave at every await.                 *)
(*  - the in-memory server (src/3.js): one global map, synchronous         *)
(*    handlers, the only await is the AI call of generate-combination.     *)
(*                                                                         *)
(* Strings are sequences of UTF-16 code units, so that sort(), the key     *)
(* concatenation and toLowerCase() are computed as JavaScript does.        *)
(***************************************************************************)
EXTENDS Integers, Sequences, FiniteSets, TLC

VARIABLES
    file,         \* part_002: parsed content of COMBINATIONS_FILE (storage key -> record)
    truncated,    \* part_002: a writeFile has opened the file and not written it yet
    calls,        \* part_002: the request handlers, one slot per request
    clock,        \* the wall clock read by new Date()
    sseClients,   \* the registry of open SSE responses, in insertion order
    received,     \* what each SSE client has been written, in order
    conn,         \* per SSE client: its connection, and whether writing to it throws
    pubs,         \* part_002: the publishes so far, in order (observation only)
    hist,         \* per request: what it saw and did (observation only)
    overlap,      \* pairs of requests whose executions overlapped (observation only)
    combinations, \* 3.js: the global in-memory map (key -> record)
    dataFile,     \* 3.js: parsed content of data/combinations.json
    gens,         \* 3.js: generate-combination requests waiting for the AI
    log3,         \* 3.js: the last request handled and its outcome (observation only)
    keyIn,        \* the arguments given to the key functions
    keyOut        \* what the key functions returned for them

vars == <<file, truncated, calls, clock, sseClients, received, conn, pubs, hist, overlap,
          combinations, dataFile, gens, log3, keyIn, keyOut>>
keyVars == <<keyIn, keyOut>>
memoryVars == <<combinations, dataFile, gens, log3>>
sseVars == <<sseClients, received, conn, pubs>>

---------------------------------------------------------------------------
(* Bounds *)

\* number of requests handled in one behaviour
MaxCalls == 2

Calls == 1..MaxCalls

---------------------------------------------------------------------------
(* Strings *)

ItemA == <<65>>                                  \* "A"
ItemB == <<66>>                                  \* "B"
Dragon == <<68, 114>>                            \* "Dr"
dragon == <<100, 114>>                           \* "dr"
Steam == <<83, 116>>                             \* "St"
Emoji1 == <<9729>>
Emoji2 == <<9731>>
Session1 == <<115, 49>>                          \* "s1"
DefaultSession == <<100, 101, 102, 97, 117, 108, 116>>   \* 'default'
Missing == <<>>                                  \* undefined or '': falsy

\* the order of Array.prototype.sort() on strings: by code units
RECURSIVE StrLess(_, _)
StrLess(s, t) ==
    IF t = <<>> THEN FALSE
    ELSE IF s = <<>> THEN TRUE
    ELSE IF Head(s) < Head(t) THEN TRUE
    ELSE IF Head(s) > Head(t) THEN FALSE
    ELSE StrLess(Tail(s), Tail(t))

toLowerCase(s) ==
    [i \in 1..Len(s) |-> IF s[i] >= 65 /\ s[i] <= 90 THEN s[i] + 32 ELSE s[i]]

---------------------------------------------------------------------------
(* Maps (JavaScript objects used as dictionaries) *)

NoRecords == [k \in {} |-> 0]

Put(m, k, v) == [x \in (DOMAIN m) \cup {k} |-> IF x = k THEN v ELSE m[x]]

Remove(m, k) == [x \in (DOMAIN m) \ {k} |-> m[x]]

Null == [null |-> TRUE]

\* no key has been asked for
NoKeyIn == [first |-> <<>>, second |-> <<>>, sessionId |-> <<>>]

---------------------------------------------------------------------------
(* The session server: pure functions *)

getCombinationKeyUnsorted(first, second) == first \o <<43>> \o second

getCombinationKey(first, second) ==
    LET sorted == IF StrLess(second, first) THEN <<second, first>> ELSE <<first, second>>
    IN  sorted[1] \o <<43>> \o sorted[2]

isFirstDiscoveryCaseSensitive(result, existingCombinations) ==
    \A k \in DOMAIN existingCombinations : existingCombinations[k].result # result

isFirstDiscovery(result, existingCombinations) ==
    \A k \in DOMAIN existingCombinations :
        toLowerCase(existingCombinations[k].result) # toLowerCase(result)

storageKeyOf(sessionId, key) ==
    IF sessionId = DefaultSession THEN key ELSE sessionId \o <<58>> \o key

combinationExistsInSession(first, second, sessionId, existingCombinations) ==
    LET key == getCombinationKey(first, second)
        sessionKey == storageKeyOf(sessionId, key)
    IN  IF sessionKey \in DOMAIN existingCombinations
        THEN existingCombinations[sessionKey]
        ELSE IF key \in DOMAIN existingCombinations
                /\ existingCombinations[key].sessionId = sessionId
        THEN existingCombinations[key]
        ELSE Null

\* loadCombinations, the migration loop: records without sessionId get 'default'
hasChanges(data) == \E k \in DOMAIN data : data[k].sessionId = Missing

\* the migration, had it stamped every record with 'default'
migratedAll(data) ==
    [k \in DOMAIN data |-> [data[k] EXCEPT !.sessionId = DefaultSession]]

migrated(data) ==
    [k \in DOMAIN data |->
        IF data[k].sessionId = Missing
        THEN [data[k] EXCEPT !.sessionId = DefaultSession]
        ELSE data[k]]

---------------------------------------------------------------------------
(* The session server: requests *)

\* bodies of POST /api/combination (sessionId Missing: the 'default' fallback)
RecordRequests ==
    { [first |-> ItemA, second |-> ItemB, result |-> Dragon, emoji |-> Emoji1, sessionId |-> Missing],
      [first |-> ItemB, second |-> ItemA, result |-> dragon, emoji |-> Emoji2, sessionId |-> Missing],
      [first |-> ItemA, second |-> ItemA, result |-> Dragon, emoji |-> Emoji1, sessionId |-> Missing],
      [first |-> ItemB, second |-> ItemB, result |-> Steam,  emoji |-> Emoji2, sessionId |-> Missing],
      [first |-> ItemA, second |-> ItemB, result |-> Dragon, emoji |-> Emoji1, sessionId |-> Session1],
      [first |-> ItemB, second |-> ItemA, result |-> Steam,  emoji |-> Emoji2, sessionId |-> Session1],
      [first |-> ItemA, second |-> ItemA, result |-> dragon, emoji |-> Emoji1, sessionId |-> Session1],
      [first |-> ItemA, second |-> ItemB, result |-> Steam,  emoji |-> Missing, sessionId |-> Missing] }

\* parameters of GET /api/combination/:first/:second
LookupRequests ==
    { [first |-> ItemA, second |-> ItemB, sessionId |-> Missing],
      [first |-> ItemB, second |-> ItemA, sessionId |-> Missing],
      [first |-> ItemA, second |-> ItemB, sessionId |-> Session1],
      [first |-> ItemA, second |-> ItemA, sessionId |-> Session1] }

NoBody == [result |-> Missing, emoji |-> Missing, isNew |-> FALSE, sessionId |-> Missing]

IdleCall ==
    [op |-> "none", first |-> Missing, second |-> Missing, result |-> Missing,
     emoji |-> Missing, sessionId |-> Missing, pc |-> "idle",
     combinations |-> NoRecords, isFirstTime |-> FALSE, status |-> 0, body |-> NoBody]

\* 3.js: nothing handled yet
NoLog == [op |-> "none", key |-> Missing, status |-> 0, deletes |-> 0,
          pair |-> <<>>, exists |-> FALSE, saved |-> FALSE, failedSaves |-> 0]

NoHist == [seen |-> NoRecords, atInsert |-> NoRecords, saves |-> 0, order |-> 0, published |-> <<>>,
           failed |-> {}]

InFlight(p) == calls[p].pc \notin {"idle", "done"}

\* requests arrive in slot order
NextSlot(p) == calls[p].pc = "idle" /\ \A q \in Calls : q < p => calls[q].pc # "idle"

Overlapping(p) == overlap \cup {{p, q} : q \in {x \in Calls : x # p /\ InFlight(x)}}

\* req.body.sessionId || req.query.sessionId || req.headers['x-session-id'] || 'default'
sessionIdOf(req) == IF req.sessionId = Missing THEN DefaultSession ELSE req.sessionId

\* an SSE client that has not connected yet
NoConn == [state |-> "new", throws |-> FALSE, since |-> 0, until |-> 0]

\* sseClients.delete(res) (3.js: sseClients.filter(client => client !== res))
UnregisterSplice(registry, c) ==
    IF \E i \in DOMAIN registry : registry[i] = c
    THEN SelectSeq(registry, LAMBDA x : x # c)
    ELSE SubSeq(registry, 1, Len(registry) - 1)

Unregister(registry, c) == SelectSeq(registry, LAMBDA x : x # c)

\* the responses in the registry
Registered == {sseClients[i] : i \in DOMAIN sseClients}

\* 3.js broadcastUpdate: sseClients.forEach with a try/catch around each write,
\* once per message; a write that throws is logged and the loop goes on
Broadcast(types) ==
    [c \in DOMAIN received |->
        IF c \in Registered /\ ~conn[c].throws THEN received[c] \o types ELSE received[c]]

\* part_002: sseClients.forEach(client => client.write(...)) has no try/catch,
\* so the first write that throws ends the loop: its position, 0 if no write throws
FirstThrower ==
    LET throwers == {i \in DOMAIN sseClients : conn[sseClients[i]].throws}
    IN  IF throwers = {} THEN 0 ELSE CHOOSE i \in throwers : \A j \in throwers : i <= j

\* the clients written before the loop ended
WrittenBefore(thrower) == {sseClients[i] : i \in 1..(thrower - 1)}

\* one entry of the log of publishes
Publish(p, type, delivered, failed) ==
    [by |-> p, type |-> type, targets |-> Registered,
     throwing |-> {c \in Registered : conn[c].throws},
     delivered |-> delivered, failed |-> failed]

\* the messages POST /api/combination publishes for its insert, in order:
\* combination_added in saveCombinations, then first_discovery if (isFirstTime)
AnnouncedDiscoveryFirst(c) ==
    IF c.isFirstTime THEN <<"first_discovery", "combination_added">>
    ELSE <<"combination_added">>

Announced(c) ==
    IF c.isFirstTime THEN <<"combination_added", "first_discovery">>
    ELSE <<"combination_added">>

\* res.json of POST /api/combination after an insert
ResponseAlwaysNew(c) ==
    [result |-> c.result, emoji |-> c.emoji, isNew |-> TRUE, sessionId |-> c.sessionId]

Response(c) ==
    [result |-> c.result, emoji |-> c.emoji, isNew |-> c.isFirstTime, sessionId |-> c.sessionId]

\* POST /api/combination after its load returned `data`: the duplicate check,
\* the discovery check and the insertion into the snapshot, up to the save
RecordAfterLoadOverwrite(c, data) ==
    LET isFirstTime == isFirstDiscovery(c.result, data)
        newCombination == [result |-> c.result, emoji |-> c.emoji, sessionId |-> c.sessionId,
                           wasFirstDiscovery |-> isFirstTime, discoveredAt |-> clock]
        storageKey == storageKeyOf(c.sessionId, getCombinationKey(c.first, c.second))
    IN  [c EXCEPT !.pc = "save", !.isFirstTime = isFirstTime,
                  !.combinations = Put(data, storageKey, newCombination)]

RecordAfterLoadPerSession(c, data) ==
    LET existingCombination == combinationExistsInSession(c.first, c.second, c.sessionId, data)
        isFirstTime == \A k \in DOMAIN data :
                           data[k].sessionId = c.sessionId
                           => toLowerCase(data[k].result) # toLowerCase(c.result)
        newCombination == [result |-> c.result, emoji |-> c.emoji, sessionId |-> c.sessionId,
                           wasFirstDiscovery |-> isFirstTime, discoveredAt |-> clock]
        storageKey == storageKeyOf(c.sessionId, getCombinationKey(c.first, c.second))
    IN  IF existingCombination # Null
        THEN [c EXCEPT !.pc = "done", !.status = 200,
                       !.body = [result |-> existingCombination.result,
                                 emoji |-> existingCombination.emoji,
                                 isNew |-> FALSE,
                                 sessionId |-> existingCombination.sessionId]]
        ELSE [c EXCEPT !.pc = "save", !.isFirstTime = isFirstTime,
                       !.combinations = Put(data, storageKey, newCombination)]

RecordAfterLoad(c, data) ==
    LET existingCombination == combinationExistsInSession(c.first, c.second, c.sessionId, data)
        isFirstTime == isFirstDiscovery(c.result, data)
        newCombination == [result |-> c.result, emoji |-> c.emoji, sessionId |-> c.sessionId,
                           wasFirstDiscovery |-> isFirstTime, discoveredAt |-> clock]
        storageKey == storageKeyOf(c.sessionId, getCombinationKey(c.first, c.second))
    IN  IF existingCombination # Null
        THEN [c EXCEPT !.pc = "done", !.status = 200,
                       !.body = [result |-> existingCombination.result,
                                 emoji |-> existingCombination.emoji,
                                 isNew |-> FALSE,
                                 sessionId |-> IF existingCombination.sessionId # Missing
                                               THEN existingCombination.sessionId
                                               ELSE c.sessionId]]
        ELSE [c EXCEPT !.pc = "save", !.isFirstTime = isFirstTime,
                       !.combinations = Put(data, storageKey, newCombination)]

\* GET /api/combination/:first/:second after its load returned `data`
LookupAfterLoad(c, data) ==
    LET foundCombination == combinationExistsInSession(c.first, c.second, c.sessionId, data)
    IN  IF foundCombination # Null
        THEN [c EXCEPT !.pc = "done", !.status = 200,
                       !.body = [result |-> foundCombination.result,
                                 emoji |-> foundCombination.emoji,
                                 isNew |-> FALSE,
                                 sessionId |-> IF foundCombination.sessionId # Missing
                                               THEN foundCombination.sessionId
                                               ELSE c.sessionId]]
        ELSE [c EXCEPT !.pc = "done", !.status = 404]

\* GET /api/combinations after its load: the whole store, whatever the sessionId
ListAfterLoad(c, data) == [c EXCEPT !.pc = "done", !.status = 200, !.body = data]

\* GET /api/check-first-discovery/:result, had it looked only at the records
\* of the request's session
CheckAfterLoadPerSession(c, data) ==
    [c EXCEPT !.pc = "done", !.status = 200,
              !.body = [result |-> c.result, sessionId |-> c.sessionId,
                        isFirstDiscovery |->
                            \A k \in DOMAIN data :
                                data[k].sessionId = c.sessionId
                                => toLowerCase(data[k].result) # toLowerCase(c.result)]]

\* GET /api/check-first-discovery/:result after its load
CheckAfterLoad(c, data) ==
    [c EXCEPT !.pc = "done", !.status = 200,
              !.body = [result |-> c.result, sessionId |-> c.sessionId,
                        isFirstDiscovery |-> isFirstDiscovery(c.result, data)]]

\* key.includes(':') ? key.split(':')[1] : key
displayKeyOf(key) ==
    LET colons == {i \in DOMAIN key : key[i] = 58}
        first == CHOOSE i \in colons : \A j \in colons : i <= j
        later == {i \in colons : i > first}
        second == IF later = {} THEN Len(key) + 1
                  ELSE CHOOSE i \in later : \A j \in later : i <= j
    IN  IF colons = {} THEN key ELSE SubSeq(key, first + 1, second - 1)

\* GET /api/first-discoveries after its load: the records with wasFirstDiscovery
\* true (of the session, if one is given) under their display keys; of two
\* records with one display key the later assignment stays, taken here to be
\* the record discovered later
FirstDiscoveriesAfterLoad(c, data) ==
    LET shown == {k \in DOMAIN data :
                     /\ data[k].wasFirstDiscovery = TRUE
                     /\ c.sessionId = Missing \/ data[k].sessionId = c.sessionId}
        last(d) == CHOOSE k \in shown :
                       /\ displayKeyOf(k) = d
                       /\ \A j \in shown : displayKeyOf(j) = d
                              => data[j].discoveredAt <= data[k].discoveredAt
        firstDiscoveries ==
            [d \in {displayKeyOf(k) : k \in shown} |->
                [result |-> data[last(d)].result, emoji |-> data[last(d)].emoji,
                 sessionId |-> IF data[last(d)].sessionId # Missing
                               THEN data[last(d)].sessionId ELSE DefaultSession,
                 discoveredAt |-> data[last(d)].discoveredAt, wasFirstDiscovery |-> TRUE]]
    IN  [c EXCEPT !.pc = "done", !.status = 200,
                  !.body = [sessionId |-> c.sessionId, firstDiscoveries |-> firstDiscoveries,
                            count |-> Cardinality(DOMAIN firstDiscoveries)]]

\* GET /api/stats, had it counted every client that has ever connected
StatsAfterLoadEverConnected(c, data) ==
    [c EXCEPT !.pc = "done", !.status = 200,
              !.body = [totalCombinations |-> Cardinality(DOMAIN data),
                        activeConnections |->
                            Cardinality({x \in DOMAIN conn : conn[x].state # "new"})]]

\* GET /api/stats after its load
StatsAfterLoad(c, data) ==
    [c EXCEPT !.pc = "done", !.status = 200,
              !.body = [totalCombinations |-> Cardinality(DOMAIN data),
                        activeConnections |-> Len(sseClients)]]

\* performAutoSave after its load: the snapshot is what it will write
AutoSaveAfterLoad(c, data) == [c EXCEPT !.pc = "autowrite", !.combinations = data]

\* process.on('SIGINT') after its load: the snapshot goes to saveCombinations
ShutdownAfterLoad(c, data) == [c EXCEPT !.pc = "shutwrite", !.combinations = data]

AfterLoad(c, data) ==
    CASE c.op = "record" -> RecordAfterLoad(c, data)
      [] c.op = "lookup" -> LookupAfterLoad(c, data)
      [] c.op = "list" -> ListAfterLoad(c, data)
      [] c.op = "check" -> CheckAfterLoad(c, data)
      [] c.op = "firsts" -> FirstDiscoveriesAfterLoad(c, data)
      [] c.op = "stats" -> StatsAfterLoad(c, data)
      [] c.op = "autosave" -> AutoSaveAfterLoad(c, data)
      [] c.op = "shutdown" -> ShutdownAfterLoad(c, data)

\* loadCombinations: what readFile and JSON.parse give; a file that has been
\* opened for writing and not written yet is empty, JSON.parse throws and the
\* catch returns {}
ReadData == IF truncated THEN NoRecords ELSE file

\* loadCombinations up to its first suspension after the read: the snapshot is
\* returned at once, or the migration write is awaited first
Loaded(c) ==
    IF truncated THEN AfterLoad(c, NoRecords)
    ELSE IF hasChanges(file)
    THEN [c EXCEPT !.pc = "migrate", !.combinations = migrated(file)]
    ELSE AfterLoad(c, file)

---------------------------------------------------------------------------
(* The session server: handlers, one action per run between two awaits *)

\* POST /api/combination: validation, the load, and the handler up to the save
PostCombinationUnvalidated(p, req) ==
    /\ NextSlot(p)
    /\ LET c == [IdleCall EXCEPT !.op = "record", !.first = req.first, !.second = req.second,
                                 !.result = req.result, !.emoji = req.emoji,
                                 !.sessionId = sessionIdOf(req)]
       IN  /\ calls' = [calls EXCEPT ![p] = Loaded(c)]
           /\ hist' = [hist EXCEPT ![p].seen = ReadData]
    /\ clock' = clock + 1
    /\ overlap' = Overlapping(p)
    /\ UNCHANGED <<file, truncated, sseVars, memoryVars, keyVars>>

PostCombination(p, req) ==
    /\ NextSlot(p)
    /\ LET c == [IdleCall EXCEPT !.op = "record", !.first = req.first, !.second = req.second,
                                 !.result = req.result, !.emoji = req.emoji,
                                 !.sessionId = sessionIdOf(req)]
       IN  IF req.first = Missing \/ req.second = Missing
              \/ req.result = Missing \/ req.emoji = Missing
           THEN /\ calls' = [calls EXCEPT ![p] = [c EXCEPT !.pc = "done", !.status = 400]]
                /\ UNCHANGED hist
           ELSE /\ calls' = [calls EXCEPT ![p] = Loaded(c)]
                /\ hist' = [hist EXCEPT ![p].seen = ReadData]
    /\ clock' = clock + 1
    /\ overlap' = Overlapping(p)
    /\ UNCHANGED <<file, truncated, sseVars, memoryVars, keyVars>>

\* POST /api/combination with valid fields where fs.readFile rejects or
\* JSON.parse throws: the catch of loadCombinations returns {} and the handler
\* goes on with it
PostCombinationLoadFails(p, req) ==
    /\ NextSlot(p)
    /\ req.first # Missing /\ req.second # Missing /\ req.result # Missing /\ req.emoji # Missing
    /\ LET c == [IdleCall EXCEPT !.op = "record", !.first = req.first, !.second = req.second,
                                 !.result = req.result, !.emoji = req.emoji,
                                 !.sessionId = sessionIdOf(req)]
       IN  calls' = [calls EXCEPT ![p] = AfterLoad(c, NoRecords)]
    /\ hist' = [hist EXCEPT ![p].seen = NoRecords, ![p].failed = @ \cup {"load"}]
    /\ clock' = clock + 1
    /\ overlap' = Overlapping(p)
    /\ UNCHANGED <<file, truncated, sseVars, memoryVars, keyVars>>

\* GET /api/combination/:first/:second
GetCombination(p, req) ==
    /\ NextSlot(p)
    /\ LET c == [IdleCall EXCEPT !.op = "lookup", !.first = req.first, !.second = req.second,
                                 !.sessionId = sessionIdOf(req)]
       IN  calls' = [calls EXCEPT ![p] = Loaded(c)]
    /\ hist' = [hist EXCEPT ![p].seen = ReadData]
    /\ overlap' = Overlapping(p)
    /\ UNCHANGED <<file, truncated, clock, sseVars, memoryVars, keyVars>>

\* a read handler: the call of loadCombinations and what follows its return
Read(p, c) ==
    /\ NextSlot(p)
    /\ calls' = [calls EXCEPT ![p] = Loaded(c)]
    /\ hist' = [hist EXCEPT ![p].seen = ReadData]
    /\ overlap' = Overlapping(p)
    /\ UNCHANGED <<file, truncated, clock, sseVars, memoryVars, keyVars>>

\* GET /api/combinations (a sessionId in the query is not read)
GetCombinations(p, sessionId) ==
    Read(p, [IdleCall EXCEPT !.op = "list", !.sessionId = sessionId])

\* GET /api/check-first-discovery/:result
CheckFirstDiscovery(p, result, sessionId) ==
    Read(p, [IdleCall EXCEPT !.op = "check", !.result = result,
                             !.sessionId = IF sessionId = Missing THEN DefaultSession
                                           ELSE sessionId])

\* GET /api/first-discoveries (no default for the sessionId)
GetFirstDiscoveries(p, sessionId) ==
    Read(p, [IdleCall EXCEPT !.op = "firsts", !.sessionId = sessionId])

\* GET /api/stats
GetStats(p) == Read(p, [IdleCall EXCEPT !.op = "stats"])

\* performAutoSave, run by the timer: its load
PerformAutoSave(p) == Read(p, [IdleCall EXCEPT !.op = "autosave"])

\* performAutoSave: its fs.writeFile of the loaded snapshot completes
AutoSaveWrite(p) ==
    /\ calls[p].pc = "autowrite"
    /\ file' = calls[p].combinations
    /\ truncated' = FALSE
    /\ calls' = [calls EXCEPT ![p].pc = "done"]
    /\ UNCHANGED <<clock, sseVars, hist, overlap, memoryVars, keyVars>>

\* process.on('SIGINT'): the load of the current combinations
Shutdown(p) == Read(p, [IdleCall EXCEPT !.op = "shutdown"])

\* process.on('SIGINT'): the fs.writeFile of saveCombinations completes
ShutdownWrite(p) ==
    /\ calls[p].pc = "shutwrite"
    /\ file' = calls[p].combinations
    /\ truncated' = FALSE
    /\ calls' = [calls EXCEPT ![p].pc = "shutnotify"]
    /\ UNCHANGED <<clock, sseVars, hist, overlap, memoryVars, keyVars>>

\* process.on('SIGINT'): saveCombinations after its write (the
\* combination_added broadcast, left at the first write that throws, the
\* error being caught by the handler), then server_shutdown and end() for
\* each client inside a try/catch, then process.exit
ShutdownFinish(p) ==
    /\ calls[p].pc = "shutnotify"
    /\ LET thrower == FirstThrower
           added == IF thrower = 0 THEN Registered ELSE WrittenBefore(thrower)
           failed == IF thrower = 0 THEN {} ELSE {sseClients[thrower]}
           ended == {c \in Registered : ~conn[c].throws}
           types(c) == (IF c \in added THEN <<"combination_added">> ELSE <<>>)
                       \o (IF c \in ended THEN <<"server_shutdown">> ELSE <<>>)
       IN  /\ received' = [c \in DOMAIN received |-> received[c] \o types(c)]
           /\ pubs' = pubs \o <<Publish(p, "combination_added", added, failed),
                                 Publish(p, "server_shutdown", ended, {})>>
           /\ conn' = [c \in DOMAIN conn |->
                          IF c \in ended
                          THEN [conn[c] EXCEPT !.state = "ended", !.until = Len(pubs')]
                          ELSE conn[c]]
           /\ hist' = [hist EXCEPT ![p].published = @ \o <<"combination_added", "server_shutdown">>,
                                   ![p].failed = IF thrower = 0 THEN @ ELSE @ \cup {"delivery"}]
    /\ calls' = [calls EXCEPT ![p].pc = "exited"]
    /\ UNCHANGED <<file, truncated, clock, sseClients, overlap, memoryVars, keyVars>>

\* loadCombinations: the migration write completes and the handler goes on
LoadMigrationWrite(p) ==
    /\ calls[p].pc = "migrate"
    /\ file' = calls[p].combinations
    /\ truncated' = FALSE
    /\ calls' = [calls EXCEPT ![p] = AfterLoad(calls[p], calls[p].combinations)]
    /\ UNCHANGED <<clock, sseVars, hist, overlap, memoryVars, keyVars>>

\* saveCombinations: fs.writeFile has opened the file with flag 'w', which
\* truncates it; the content is written by a later step
SaveOpen(p) ==
    /\ calls[p].pc = "save"
    /\ truncated' = TRUE
    /\ calls' = [calls EXCEPT ![p].pc = "write"]
    /\ UNCHANGED <<file, clock, sseVars, hist, overlap, memoryVars, keyVars>>

\* saveCombinations: fs.writeFile completes
SaveWrite(p) ==
    /\ calls[p].pc \in {"save", "write"}
    /\ file' = calls[p].combinations
    /\ truncated' = FALSE
    /\ calls' = [calls EXCEPT ![p].pc = "notify"]
    /\ hist' = [hist EXCEPT ![p].atInsert = file, ![p].saves = @ + 1,
                            ![p].order = 1 + Cardinality({q \in Calls : hist[q].saves > 0})]
    /\ UNCHANGED <<clock, sseVars, overlap, memoryVars, keyVars>>

\* saveCombinations: fs.writeFile rejects; the catch logs and rethrows, and the
\* catch of POST /api/combination answers 500
SaveFail(p) ==
    /\ calls[p].pc = "save"
    /\ calls' = [calls EXCEPT ![p].pc = "done", ![p].status = 500]
    /\ hist' = [hist EXCEPT ![p].failed = @ \cup {"save"}]
    /\ UNCHANGED <<file, truncated, clock, sseVars, overlap, memoryVars, keyVars>>

\* saveCombinations after its write (the combination_added broadcast), then the
\* rest of POST /api/combination (the first_discovery broadcast, the response);
\* a write that throws leaves the forEach, saveCombinations rethrows and the
\* catch of the handler answers 500
PostCombinationFinish(p) ==
    /\ calls[p].pc = "notify"
    /\ LET c == calls[p]
           types == Announced(c)
           thrower == FirstThrower
       IN  IF thrower = 0
           THEN /\ received' = Broadcast(types)
                /\ pubs' = pubs \o [i \in DOMAIN types |-> Publish(p, types[i], Registered, {})]
                /\ hist' = [hist EXCEPT ![p].published = @ \o types]
                /\ calls' = [calls EXCEPT ![p] =
                       [c EXCEPT !.pc = "done", !.status = 200, !.body = Response(c)]]
           ELSE /\ received' = [x \in DOMAIN received |->
                                   IF x \in WrittenBefore(thrower)
                                   THEN Append(received[x], types[1]) ELSE received[x]]
                /\ pubs' = Append(pubs, Publish(p, types[1], WrittenBefore(thrower),
                                                {sseClients[thrower]}))
                /\ hist' = [hist EXCEPT ![p].published = Append(@, types[1]),
                                        ![p].failed = @ \cup {"delivery"}]
                /\ calls' = [calls EXCEPT ![p].pc = "done", ![p].status = 500]
    /\ UNCHANGED <<file, truncated, clock, sseClients, conn, overlap, memoryVars, keyVars>>

\* GET /events: the response joins the registry and is written the connected message
SubscribeAnnouncedToAll(c) ==
    /\ conn[c].state = "new"
    /\ sseClients' = Append(sseClients, c)
    /\ received' = [x \in DOMAIN received |->
                       IF x = c \/ x \in Registered
                       THEN Append(received[x], "connected") ELSE received[x]]
    /\ conn' = [conn EXCEPT ![c].state = "open", ![c].since = Len(pubs)]
    /\ UNCHANGED <<file, truncated, calls, clock, pubs, hist, overlap, memoryVars, keyVars>>

Subscribe(c) ==
    /\ conn[c].state = "new"
    /\ sseClients' = Append(sseClients, c)
    /\ received' = [received EXCEPT ![c] = Append(@, "connected")]
    /\ conn' = [conn EXCEPT ![c].state = "open", ![c].since = Len(pubs)]
    /\ UNCHANGED <<file, truncated, calls, clock, pubs, hist, overlap, memoryVars, keyVars>>

\* req.on('close'): the response leaves the registry
CloseStaysRegistered(c) ==
    /\ conn[c].state = "open"
    /\ conn' = [conn EXCEPT ![c].state = "closed", ![c].until = Len(pubs)]
    /\ UNCHANGED <<file, truncated, calls, clock, sseClients, received, pubs, hist, overlap, memoryVars, keyVars>>

Close(c) ==
    /\ conn[c].state = "open"
    /\ sseClients' = Unregister(sseClients, c)
    /\ conn' = [conn EXCEPT ![c].state = "closed", ![c].until = Len(pubs)]
    /\ UNCHANGED <<file, truncated, calls, clock, received, pubs, hist, overlap, memoryVars, keyVars>>

\* the connection of an open client breaks: from now on writing to it throws
Break(c) ==
    /\ conn[c].state = "open"
    /\ ~conn[c].throws
    /\ conn' = [conn EXCEPT ![c].throws = TRUE]
    /\ UNCHANGED <<file, truncated, calls, clock, sseClients, received, pubs, hist, overlap, memoryVars, keyVars>>

---------------------------------------------------------------------------
(* Specification of the session server on a fresh store *)

Clients == {"c1", "c2"}

\* the server has started and has handled nothing yet
Started ==
    /\ truncated = FALSE
    /\ keyIn = NoKeyIn
    /\ keyOut = Null
    /\ calls = [p \in Calls |-> IdleCall]
    /\ clock = 0
    /\ sseClients = <<>>
    /\ received = [c \in Clients |-> <<>>]
    /\ conn = [c \in Clients |-> NoConn]
    /\ pubs = <<>>
    /\ hist = [p \in Calls |-> NoHist]
    /\ overlap = {}
    /\ combinations = NoRecords
    /\ dataFile = NoRecords
    /\ gens = {}
    /\ log3 = NoLog

Init == file = NoRecords /\ Started

Next ==
    \/ \E p \in Calls, req \in RecordRequests : PostCombination(p, req)
    \/ \E p \in Calls, req \in LookupRequests : GetCombination(p, req)
    \/ \E p \in Calls : SaveWrite(p)
    \/ \E p \in Calls : PostCombinationFinish(p)

Spec == Init /\ [][Next]_vars

---------------------------------------------------------------------------
(* The session server with SSE subscribers *)

\* bodies of POST /api/combination that lack one of the four required fields
InvalidRequests ==
    { [first |-> Missing, second |-> ItemB, result |-> Dragon, emoji |-> Emoji1, sessionId |-> Missing],
      [first |-> ItemA, second |-> Missing, result |-> Dragon, emoji |-> Emoji1, sessionId |-> Session1],
      [first |-> ItemA, second |-> ItemB, result |-> Missing, emoji |-> Emoji1, sessionId |-> Missing],
      [first |-> ItemA, second |-> ItemB, result |-> Dragon, emoji |-> Missing, sessionId |-> Missing] }

ValidRequests ==
    { [first |-> ItemA, second |-> ItemB, result |-> Dragon, emoji |-> Emoji1, sessionId |-> Missing],
      [first |-> ItemA, second |-> ItemA, result |-> dragon, emoji |-> Emoji2, sessionId |-> Session1] }

SseRequests == ValidRequests \cup InvalidRequests

NextSSE ==
    \/ \E p \in Calls, req \in SseRequests : PostCombination(p, req)
    \/ \E p \in Calls : SaveWrite(p)
    \/ \E p \in Calls : PostCombinationFinish(p)
    \/ \E c \in Clients : Subscribe(c)
    \/ \E c \in Clients : Close(c)

SpecSSE == Init /\ [][NextSSE]_vars

\* the continuation of a handler whose write has completed is run by the event loop
NextSSELive ==
    \/ \E p \in Calls, req \in ValidRequests : PostCombination(p, req)
    \/ \E p \in Calls : SaveWrite(p)
    \/ \E p \in Calls : PostCombinationFinish(p)
    \/ \E c \in Clients : Subscribe(c)
    \/ \E c \in Clients : Close(c)

SpecSSELive ==
    Init /\ [][NextSSELive]_vars /\ \A p \in Calls : WF_vars(PostCombinationFinish(p))

\* record calls, subscribers and GET /api/stats
NextStats ==
    \/ \E p \in Calls, req \in ValidRequests : PostCombination(p, req)
    \/ \E p \in Calls : SaveWrite(p)
    \/ \E p \in Calls : PostCombinationFinish(p)
    \/ \E c \in Clients : Subscribe(c)
    \/ \E c \in Clients : Close(c)
    \/ \E p \in Calls : GetStats(p)

SpecStats == Init /\ [][NextStats]_vars

\* the same, where the file write can fail and a connection can break
NextFault ==
    \/ NextSSE
    \/ \E p \in Calls : SaveFail(p)
    \/ \E c \in Clients : Break(c)

SpecFault == Init /\ [][NextFault]_vars

---------------------------------------------------------------------------
(* The session server started on a store written before *)

StoredDragon ==
    [result |-> Dragon, emoji |-> Emoji1, sessionId |-> DefaultSession,
     wasFirstDiscovery |-> TRUE, discoveredAt |-> 0]

\* stores this server writes: record(A, B, 'Dr') in the default session, then
\* record(B, A, 'St') or record(A, A, 'dr') in session s1
WrittenStores ==
    { NoRecords,
      Put(NoRecords, getCombinationKey(ItemA, ItemB), StoredDragon),
      Put(Put(NoRecords, getCombinationKey(ItemA, ItemB), StoredDragon),
          storageKeyOf(Session1, getCombinationKey(ItemB, ItemA)),
          [result |-> Steam, emoji |-> Emoji2, sessionId |-> Session1,
           wasFirstDiscovery |-> TRUE, discoveredAt |-> 1]),
      Put(Put(NoRecords, getCombinationKey(ItemA, ItemB), StoredDragon),
          storageKeyOf(Session1, getCombinationKey(ItemA, ItemA)),
          [result |-> dragon, emoji |-> Emoji1, sessionId |-> Session1,
           wasFirstDiscovery |-> FALSE, discoveredAt |-> 1]) }

InitStored == file \in WrittenStores /\ Started

\* the sessionId of a request: absent, or s1
RequestSessions == {Missing, Session1}

NextReads ==
    \/ \E p \in Calls, req \in ValidRequests : PostCombination(p, req)
    \/ \E p \in Calls : SaveWrite(p)
    \/ \E p \in Calls : PostCombinationFinish(p)
    \/ \E p \in Calls, req \in LookupRequests : GetCombination(p, req)
    \/ \E p \in Calls, sessionId \in RequestSessions : GetCombinations(p, sessionId)
    \/ \E p \in Calls, result \in {Dragon, dragon, Steam}, sessionId \in RequestSessions :
           CheckFirstDiscovery(p, result, sessionId)
    \/ \E p \in Calls, sessionId \in RequestSessions : GetFirstDiscoveries(p, sessionId)
    \/ \E p \in Calls : GetStats(p)

SpecReads == InitStored /\ [][NextReads]_vars

\* the same store, where the two steps of a file write are told apart
NextTorn ==
    \/ \E p \in Calls, req \in ValidRequests : PostCombination(p, req)
    \/ \E p \in Calls : SaveOpen(p)
    \/ \E p \in Calls : SaveWrite(p)
    \/ \E p \in Calls : PostCombinationFinish(p)
    \/ \E p \in Calls, req \in LookupRequests : GetCombination(p, req)
    \/ \E p \in Calls, sessionId \in RequestSessions : GetCombinations(p, sessionId)

SpecTorn == InitStored /\ [][NextTorn]_vars

\* record calls and the auto-save of the timer
NextAutoSave ==
    \/ \E p \in Calls, req \in ValidRequests : PostCombination(p, req)
    \/ \E p \in Calls : SaveWrite(p)
    \/ \E p \in Calls : PostCombinationFinish(p)
    \/ \E p \in Calls : PerformAutoSave(p)
    \/ \E p \in Calls : AutoSaveWrite(p)

SpecAutoSave == InitStored /\ [][NextAutoSave]_vars

\* record calls whose load can fail
NextLoadFault ==
    \/ \E p \in Calls, req \in ValidRequests : PostCombination(p, req)
    \/ \E p \in Calls, req \in ValidRequests : PostCombinationLoadFails(p, req)
    \/ \E p \in Calls : SaveWrite(p)
    \/ \E p \in Calls : PostCombinationFinish(p)
    \/ \E p \in Calls, req \in LookupRequests : GetCombination(p, req)

SpecLoadFault == InitStored /\ [][NextLoadFault]_vars

\* process.exit has run: nothing is handled any more
Exited == \E p \in Calls : calls[p].pc = "exited"

\* record calls, lookups, subscribers and the shutdown on SIGINT
NextShutdown ==
    \/ ~Exited /\ \E p \in Calls, req \in ValidRequests : PostCombination(p, req)
    \/ ~Exited /\ \E p \in Calls : SaveWrite(p)
    \/ ~Exited /\ \E p \in Calls : PostCombinationFinish(p)
    \/ ~Exited /\ \E p \in Calls, req \in LookupRequests : GetCombination(p, req)
    \/ ~Exited /\ \E c \in Clients : Subscribe(c)
    \/ ~Exited /\ \E c \in Clients : Close(c)
    \/ ~Exited /\ \E p \in Calls : Shutdown(p)
    \/ ~Exited /\ \E p \in Calls : ShutdownWrite(p)
    \/ ~Exited /\ \E p \in Calls : ShutdownFinish(p)

SpecShutdown == InitStored /\ [][NextShutdown]_vars

---------------------------------------------------------------------------
(* The session server started on a store of its predecessor (src/server.js) *)

LegacyDragon ==
    [result |-> Dragon, emoji |-> Emoji1, sessionId |-> Missing,
     wasFirstDiscovery |-> TRUE, discoveredAt |-> 0]

LegacySteam ==
    [result |-> Steam, emoji |-> Emoji2, sessionId |-> Missing,
     wasFirstDiscovery |-> FALSE, discoveredAt |-> 1]

\* stores with records that have no sessionId, alone or beside a record of a session
LegacyStores ==
    { Put(NoRecords, getCombinationKey(ItemA, ItemB), LegacyDragon),
      Put(Put(NoRecords, getCombinationKey(ItemA, ItemB), LegacyDragon),
          getCombinationKey(ItemB, ItemB), LegacySteam),
      Put(Put(NoRecords, getCombinationKey(ItemA, ItemB), LegacyDragon),
          storageKeyOf(Session1, getCombinationKey(ItemA, ItemA)),
          [result |-> dragon, emoji |-> Emoji1, sessionId |-> Session1,
           wasFirstDiscovery |-> FALSE, discoveredAt |-> 1]) }

InitLegacy == file \in LegacyStores /\ Started

NextLegacy ==
    \/ \E p \in Calls, req \in ValidRequests : PostCombination(p, req)
    \/ \E p \in Calls : LoadMigrationWrite(p)
    \/ \E p \in Calls : SaveWrite(p)
    \/ \E p \in Calls : PostCombinationFinish(p)
    \/ \E p \in Calls, req \in LookupRequests : GetCombination(p, req)
    \/ \E p \in Calls, sessionId \in RequestSessions : GetCombinations(p, sessionId)
    \/ \E p \in Calls, result \in {Dragon, Steam}, sessionId \in RequestSessions :
           CheckFirstDiscovery(p, result, sessionId)
    \/ \E p \in Calls, sessionId \in RequestSessions : GetFirstDiscoveries(p, sessionId)
    \/ \E p \in Calls : GetStats(p)

SpecLegacy == InitLegacy /\ [][NextLegacy]_vars

---------------------------------------------------------------------------
(* The session server with names that contain the separators of the keys *)

ItemT == <<116>>                                 \* "t"
S1ColonA == <<115, 49, 58, 65>>                  \* "s1:A"

SeparatorRequests ==
    { [first |-> ItemA, second |-> ItemT, result |-> Dragon, emoji |-> Emoji1, sessionId |-> Session1],
      [first |-> S1ColonA, second |-> ItemT, result |-> Steam, emoji |-> Emoji2, sessionId |-> Session1],
      [first |-> ItemT, second |-> S1ColonA, result |-> Steam, emoji |-> Emoji2, sessionId |-> Missing],
      [first |-> ItemA, second |-> ItemT, result |-> dragon, emoji |-> Emoji1, sessionId |-> Missing] }

NextSeparators ==
    \/ \E p \in Calls, req \in SeparatorRequests : PostCombination(p, req)
    \/ \E p \in Calls : SaveWrite(p)
    \/ \E p \in Calls : PostCombinationFinish(p)

SpecSeparators == Init /\ [][NextSeparators]_vars

---------------------------------------------------------------------------
(* The key functions of the session server, applied to arbitrary names *)

ItemLowerA == <<97>>                             \* "a"
ItemAB == <<65, 66>>                             \* "AB"
ItemAPlusB == <<65, 43, 66>>                     \* "A+B"
ItemBPlus == <<66, 43>>                          \* "B+"
ItemPlusA == <<43, 65>>                          \* "+A"
ItemColonA == <<58, 65>>                         \* ":A"
ItemC == <<67>>                                  \* "C"
ItemBPlusC == <<66, 43, 67>>                     \* "B+C"

Names == {ItemA, ItemB, ItemLowerA, ItemAB, ItemAPlusB, ItemBPlus, ItemPlusA,
          ItemColonA, S1ColonA, ItemC, ItemBPlusC}

KeyInputs == [first : Names, second : Names, sessionId : {DefaultSession, Session1}]

InitKeys ==
    /\ file = NoRecords
    /\ truncated = FALSE
    /\ keyIn \in KeyInputs
    /\ keyOut = Null
    /\ calls = [p \in Calls |-> IdleCall]
    /\ clock = 0
    /\ sseClients = <<>>
    /\ received = [c \in Clients |-> <<>>]
    /\ conn = [c \in Clients |-> NoConn]
    /\ pubs = <<>>
    /\ hist = [p \in Calls |-> NoHist]
    /\ overlap = {}
    /\ combinations = NoRecords
    /\ dataFile = NoRecords
    /\ gens = {}
    /\ log3 = NoLog

\* the handlers compute the key of the pair and the storage key of the session
MakeKeys ==
    /\ keyOut = Null
    /\ keyOut' = [key |-> getCombinationKey(keyIn.first, keyIn.second),
                  swapped |-> getCombinationKey(keyIn.second, keyIn.first),
                  storageKey |-> storageKeyOf(keyIn.sessionId,
                                              getCombinationKey(keyIn.first, keyIn.second))]
    /\ UNCHANGED <<file, truncated, calls, clock, sseVars, hist, overlap, memoryVars, keyIn>>

NextKeys == MakeKeys

SpecKeys == InitKeys /\ [][NextKeys]_vars

---------------------------------------------------------------------------
(* The in-memory server (3.js): strings *)

StrFire         == <<70, 105, 114, 101>>
StrWater        == <<87, 97, 116, 101, 114>>
StrWind         == <<87, 105, 110, 100>>
StrEarth        == <<69, 97, 114, 116, 104>>
StrLava         == <<76, 97, 118, 97>>
StrSteam        == <<83, 116, 101, 97, 109>>
StrPlant        == <<80, 108, 97, 110, 116>>
StrSmoke        == <<83, 109, 111, 107, 101>>
StrWave         == <<87, 97, 118, 101>>
StrDust         == <<68, 117, 115, 116>>
StrNothing      == <<78, 111, 116, 104, 105, 110, 103>>
StrIce          == <<73, 99, 101>>
Strconstructor  == <<99, 111, 110, 115, 116, 114, 117, 99, 116, 111, 114>>
EmojiLava       == <<55356, 57099>>
EmojiSteam      == <<55357, 56488>>
EmojiPlant      == <<55356, 57137>>
EmojiWave       == <<55356, 57098>>
EmojiDust       == <<55356, 57130, 65039>>
EmojiNothing    == <<10060>>

---------------------------------------------------------------------------
(* The in-memory server (3.js): functions *)

getCombinationKey3(first, second) ==
    LET sorted == IF StrLess(second, first) THEN <<second, first>> ELSE <<first, second>>
    IN  sorted[1] \o <<43>> \o sorted[2]

\* the literal keys of the seeded map
Literal(first, second) == first \o <<43>> \o second

Seeded(result, emoji) ==
    [result |-> result, emoji |-> emoji, isNew |-> FALSE, timestamp |-> 0, firstDiscovery |-> FALSE]

\* loadCombinations when data/combinations.json does not exist
basicCombinations ==
    Put(Put(Put(Put(Put(Put(NoRecords,
        Literal(StrEarth, StrFire), Seeded(StrLava, EmojiLava)),
        Literal(StrFire, StrWater), Seeded(StrSteam, EmojiSteam)),
        Literal(StrEarth, StrWater), Seeded(StrPlant, EmojiPlant)),
        Literal(StrWind, StrFire), Seeded(StrSmoke, EmojiSteam)),
        Literal(StrWater, StrWind), Seeded(StrWave, EmojiWave)),
        Literal(StrEarth, StrWind), Seeded(StrDust, EmojiDust))

\* properties every object inherits: combinations[key] is truthy for them
InheritedKeys == {Strconstructor}

\* saveCombinations, had it added to the file what the map holds and kept
\* the rest of the file
saveCombinations3Merging(data, ok) ==
    IF ok
    THEN [k \in (DOMAIN data) \cup (DOMAIN dataFile) |->
             IF k \in DOMAIN data THEN data[k] ELSE dataFile[k]]
    ELSE dataFile

\* saveCombinations: the file after writeFileSync, which may throw (it is caught)
saveCombinations3(data, ok) == IF ok THEN data ELSE dataFile

\* what saveCombinations broadcasts
savedEvents(ok) == IF ok THEN <<"combinations_updated">> ELSE <<>>

\* generateAICombination: the combination made of the AI's answer, or the fallback
generatedCombination(ai) ==
    IF ai.ok
    THEN [result |-> ai.result, emoji |-> ai.emoji, isNew |-> TRUE, timestamp |-> clock,
          generated |-> TRUE, firstDiscovery |-> TRUE]
    ELSE [result |-> StrNothing, emoji |-> EmojiNothing, isNew |-> FALSE, timestamp |-> clock,
          generated |-> FALSE, firstDiscovery |-> FALSE]

---------------------------------------------------------------------------
(* The in-memory server (3.js): requests and handlers *)

\* bodies of POST /api/combinations
AddRequests ==
    [first : {StrFire, StrWind}, second : {StrWater, StrFire}, result : {StrSteam, StrIce},
     emoji : {Emoji1, Missing}, isNew : BOOLEAN]

\* bodies of POST /api/generate-combination
GenerateRequests == [first : {StrFire, StrWind}, second : {StrWater, Missing}]

\* what the AI call comes back with
AIOutcomes ==
    { [ok |-> TRUE, result |-> StrSteam, emoji |-> Emoji1],
      [ok |-> TRUE, result |-> StrIce, emoji |-> Emoji2],
      [ok |-> FALSE, result |-> Missing, emoji |-> Missing] }

\* the :key of DELETE /api/combinations/:key
DeleteKeys ==
    {Literal(StrFire, StrWater), Literal(StrWind, StrFire), Literal(StrFire, StrWind),
     Strconstructor}

Arrives == clock < MaxCalls

\* POST /api/combinations
AddCombination(req, ok) ==
    /\ Arrives
    /\ IF req.first = Missing \/ req.second = Missing \/ req.result = Missing \/ req.emoji = Missing
       THEN /\ log3' = [log3 EXCEPT !.op = "add", !.key = Missing, !.status = 400]
            /\ UNCHANGED <<combinations, dataFile, received>>
       ELSE LET key == getCombinationKey3(req.first, req.second)
                combination == [result |-> req.result, emoji |-> req.emoji, isNew |-> req.isNew,
                                timestamp |-> clock, generated |-> FALSE,
                                firstDiscovery |-> FALSE]
            IN  /\ combinations' = Put(combinations, key, combination)
                /\ dataFile' = saveCombinations3(combinations', ok)
                /\ received' = Broadcast(savedEvents(ok) \o <<"combination_added">>)
                /\ log3' = [log3 EXCEPT !.op = "add", !.key = key, !.status = 200,
                                        !.saved = ok,
                                        !.failedSaves = IF ok THEN @ ELSE @ + 1]
    /\ clock' = clock + 1
    /\ UNCHANGED <<file, truncated, calls, sseClients, conn, pubs, hist, overlap, gens, keyVars>>

\* POST /api/generate-combination up to the await of the AI call
GenerateCombination(req) ==
    /\ Arrives
    /\ IF req.first = Missing \/ req.second = Missing
       THEN /\ log3' = [log3 EXCEPT !.op = "generate", !.key = Missing, !.status = 400]
            /\ UNCHANGED gens
       ELSE /\ gens' = gens \cup {[id |-> clock, first |-> req.first, second |-> req.second,
                                   key |-> getCombinationKey3(req.first, req.second)]}
            /\ UNCHANGED log3
    /\ clock' = clock + 1
    /\ UNCHANGED <<file, truncated, calls, sseVars, hist, overlap, combinations, dataFile, keyVars>>

\* POST /api/generate-combination after the AI call: store, save, broadcast
GenerateFinish(g, ai, ok) ==
    /\ g \in gens
    /\ LET newCombination == generatedCombination(ai)
       IN  /\ combinations' = Put(combinations, g.key, newCombination)
           /\ dataFile' = saveCombinations3(combinations', ok)
           /\ received' = Broadcast(savedEvents(ok) \o <<"new_combination">>)
           /\ log3' = [log3 EXCEPT !.op = "generate", !.key = g.key, !.status = 200,
                                   !.saved = ok,
                                   !.failedSaves = IF ok THEN @ ELSE @ + 1]
    /\ gens' = gens \ {g}
    /\ clock' = clock + 1
    /\ UNCHANGED <<file, truncated, calls, sseClients, conn, pubs, hist, overlap, keyVars>>

\* DELETE /api/combinations/:key
DeleteCombination(key, ok) ==
    /\ Arrives
    /\ IF key \in DOMAIN combinations \/ key \in InheritedKeys
       THEN /\ combinations' = Remove(combinations, key)
            /\ dataFile' = saveCombinations3(combinations', ok)
            /\ received' = Broadcast(savedEvents(ok) \o <<"combination_deleted">>)
            /\ log3' = [log3 EXCEPT !.op = "delete", !.key = key, !.status = 200,
                                    !.deletes = IF key \in DOMAIN combinations THEN @ + 1 ELSE @,
                                    !.saved = ok,
                                    !.failedSaves = IF ok THEN @ ELSE @ + 1]
       ELSE /\ log3' = [log3 EXCEPT !.op = "delete", !.key = key, !.status = 404]
            /\ UNCHANGED <<combinations, dataFile, received>>
    /\ clock' = clock + 1
    /\ UNCHANGED <<file, truncated, calls, sseClients, conn, pubs, hist, overlap, gens, keyVars>>

\* the names in the query of GET /api/check-combination
CheckItems == {StrEarth, StrFire, StrWater, StrWind, Missing}

\* GET /api/check-combination?first=..&second=..
CheckCombination(first, second) ==
    /\ Arrives
    /\ IF first = Missing \/ second = Missing
       THEN log3' = [log3 EXCEPT !.op = "check", !.key = Missing, !.status = 400,
                                 !.pair = <<first, second>>, !.exists = FALSE]
       ELSE LET key == getCombinationKey3(first, second)
            IN  log3' = [log3 EXCEPT !.op = "check", !.key = key, !.status = 200,
                                     !.pair = <<first, second>>,
                                     !.exists = key \in DOMAIN combinations]
    /\ clock' = clock + 1
    /\ UNCHANGED <<file, truncated, calls, sseVars, hist, overlap, combinations, dataFile, gens,
                   keyVars>>

\* the server has started on an absent data file: the basic combinations are
\* in memory and saved
Init3 ==
    /\ file = NoRecords
    /\ truncated = FALSE
    /\ keyIn = NoKeyIn
    /\ keyOut = Null
    /\ calls = [p \in Calls |-> IdleCall]
    /\ clock = 0
    /\ sseClients = <<>>
    /\ received = [c \in Clients |-> <<>>]
    /\ conn = [c \in Clients |-> NoConn]
    /\ pubs = <<>>
    /\ hist = [p \in Calls |-> NoHist]
    /\ overlap = {}
    /\ combinations = basicCombinations
    /\ dataFile = basicCombinations
    /\ gens = {}
    /\ log3 = NoLog

Next3 ==
    \/ \E req \in AddRequests : AddCombination(req, TRUE)
    \/ \E req \in GenerateRequests : GenerateCombination(req)
    \/ \E g \in gens, ai \in AIOutcomes : GenerateFinish(g, ai, TRUE)
    \/ \E key \in DeleteKeys : DeleteCombination(key, TRUE)

Spec3 == Init3 /\ [][Next3]_vars

\* the same server where writeFileSync can throw
Next3Fault ==
    \/ \E req \in AddRequests, ok \in BOOLEAN : AddCombination(req, ok)
    \/ \E req \in GenerateRequests : GenerateCombination(req)
    \/ \E g \in gens, ai \in AIOutcomes, ok \in BOOLEAN : GenerateFinish(g, ai, ok)
    \/ \E key \in DeleteKeys, ok \in BOOLEAN : DeleteCombination(key, ok)

Spec3Fault == Init3 /\ [][Next3Fault]_vars

\* the same server with its lookup
Next3Check ==
    \/ Next3
    \/ \E first \in CheckItems, second \in CheckItems : CheckCombination(first, second)

Spec3Check == Init3 /\ [][Next3Check]_vars

---------------------------------------------------------------------------
(* Vocabulary of the properties of the session server *)

Done(p) == calls[p].pc = "done"

RecordCall(p) == calls[p].op = "record"

\* the request ran POST /api/combination to its response and was answered 200
Succeeded(p) == RecordCall(p) /\ Done(p) /\ calls[p].status = 200

\* the request's insertion reached the store (its save wrote the file)
Inserted(p) == RecordCall(p) /\ hist[p].saves > 0

\* the place of the request's record in the store
KeyOf(p) == storageKeyOf(calls[p].sessionId, getCombinationKey(calls[p].first, calls[p].second))

SamePair(p, q) == {calls[p].first, calls[p].second} = {calls[q].first, calls[q].second}

SameName(r1, r2) == toLowerCase(r1) = toLowerCase(r2)

\* the record the request constructed and saved
RecordOf(p) == calls[p].combinations[KeyOf(p)]

\* the request overlapped no other POST /api/combination
Alone(p) == \A q \in Calls : {p, q} \in overlap => ~RecordCall(q)

\* the insertions in the order of their writes
InsertedBefore(q, p) ==
    /\ Inserted(q) /\ Inserted(p)
    /\ hist[q].order < hist[p].order

\* what GET /api/combination/:first/:second answers on the store as it is now
LookupNow(first, second, sessionId) ==
    LookupAfterLoad([IdleCall EXCEPT !.op = "lookup", !.first = first, !.second = second,
                                     !.sessionId = sessionId], file)

---------------------------------------------------------------------------
(* Properties of the session server *)

\* C1: two overlapping record calls for the same pair and session that both
\* return leave one record at the key, and at most one of them reports isNew
C1_OneWinner ==
    \A p, q \in Calls :
        (/\ p # q /\ {p, q} \in overlap
         /\ Succeeded(p) /\ Succeeded(q)
         /\ SamePair(p, q) /\ calls[p].sessionId = calls[q].sessionId)
        => /\ KeyOf(p) \in DOMAIN file
           /\ ~(calls[p].body.isNew /\ calls[q].body.isNew)

\* C2: at most one stored record per result name (ignoring case) has
\* wasFirstDiscovery, and at most one record call per result name returns isNew
C2_NoDoubleAward ==
    /\ \A k1, k2 \in DOMAIN file :
          (k1 # k2 /\ file[k1].wasFirstDiscovery /\ file[k2].wasFirstDiscovery)
          => ~SameName(file[k1].result, file[k2].result)
    /\ \A p, q \in Calls :
          (p # q /\ Succeeded(p) /\ Succeeded(q) /\ calls[p].body.isNew /\ calls[q].body.isNew)
          => ~SameName(calls[p].result, calls[q].result)

\* C3: a record whose insertion was acknowledged stays in the store and is
\* returned by lookup (the session server has no delete and no reset)
C3_AcknowledgedStays ==
    \A p \in Calls :
        (Succeeded(p) /\ Inserted(p))
        => /\ KeyOf(p) \in DOMAIN file
           /\ LookupNow(calls[p].first, calls[p].second, calls[p].sessionId).status = 200

\* C4: a record call that finds a record at its key for its session is a
\* no-op: it is answered at once with the existing result and emoji and
\* isNew false, it saves nothing and it publishes nothing
C4_DuplicateNoOp ==
    \A p \in Calls :
        (RecordCall(p) /\ calls[p].status # 400 /\ KeyOf(p) \in DOMAIN hist[p].seen)
        => /\ Succeeded(p)
           /\ calls[p].body.result = hist[p].seen[KeyOf(p)].result
           /\ calls[p].body.emoji = hist[p].seen[KeyOf(p)].emoji
           /\ calls[p].body.isNew = FALSE
           /\ hist[p].saves = 0
           /\ hist[p].published = <<>>

\* C4, witness: a duplicate call that supplied another result and another emoji
C4_Witness ==
    \E p \in Calls :
        /\ Succeeded(p) /\ KeyOf(p) \in DOMAIN hist[p].seen
        /\ calls[p].result # calls[p].body.result
        /\ calls[p].emoji # calls[p].body.emoji
        /\ KeyOf(p) \in DOMAIN file /\ file[KeyOf(p)] = hist[p].seen[KeyOf(p)]

C7_ForeclosedForever ==
    \A p, q \in Calls :
        (InsertedBefore(q, p) /\ SameName(calls[q].result, calls[p].result))
        => ~RecordOf(p).wasFirstDiscovery

C10_LookupAfterRecord ==
    \A p \in Calls :
        (Succeeded(p) /\ Inserted(p))
        => \A pair \in {<<calls[p].first, calls[p].second>>, <<calls[p].second, calls[p].first>>} :
              LET answer == LookupNow(pair[1], pair[2], calls[p].sessionId)
              IN  /\ answer.status = 200
                  /\ answer.body.result = calls[p].result
                  /\ answer.body.emoji = calls[p].emoji
                  /\ answer.body.isNew = FALSE

---------------------------------------------------------------------------
(* Sessions *)

Sessions == {DefaultSession, Session1}

\* some insertion of the pair of request p was made under the session
RecordedUnder(p, sessionId) ==
    \E q \in Calls : Inserted(q) /\ SamePair(p, q) /\ calls[q].sessionId = sessionId

\* C11: while a pair has been recorded under one session only, a lookup of
\* the pair under another session answers not found, and no record call for
\* the pair under another session is answered with an existing record
C11_SessionIsolation ==
    \A p \in Calls : \A s2 \in Sessions :
        Inserted(p) /\ s2 # calls[p].sessionId /\ ~RecordedUnder(p, s2)
        => /\ LookupNow(calls[p].first, calls[p].second, s2).status = 404
           /\ \A q \in Calls :
                  RecordCall(q) /\ SamePair(p, q) /\ calls[q].sessionId = s2
                  => ~Succeeded(q)

\* C12: a record call that inserted answers with isNew equal to the
\* wasFirstDiscovery it stored, a record call answered with an existing
\* record answers isNew false, and every lookup answers isNew false
C12_IsNewIsStoredFlag ==
    \A p \in Calls :
        Done(p) /\ calls[p].status = 200
        => IF RecordCall(p) /\ Inserted(p)
           THEN calls[p].body.isNew = RecordOf(p).wasFirstDiscovery
           ELSE calls[p].body.isNew = FALSE

C12_Witness ==
    \E p, q \in Calls :
        /\ Succeeded(p) /\ Inserted(p) /\ calls[p].body.isNew
        /\ Succeeded(q) /\ Inserted(q) /\ ~calls[q].body.isNew
        /\ ~RecordOf(q).wasFirstDiscovery

---------------------------------------------------------------------------
(* Validation *)

\* the body of the record call lacks one of the four required fields
Invalid(c) ==
    c.first = Missing \/ c.second = Missing \/ c.result = Missing \/ c.emoji = Missing

\* C13: a record call that lacks first, second, result or emoji is answered
\* 400 at once; handling it changes neither the file nor the registry nor
\* what any subscriber has been written, and it never loads, saves or publishes
C13_ValidationChangesNothing ==
    [][\A p \in Calls :
          calls'[p].op = "record" /\ Invalid(calls'[p])
          => /\ calls'[p].pc = "done" /\ calls'[p].status = 400
             /\ hist'[p] = NoHist
             /\ calls[p].pc = "idle"
                => /\ file' = file /\ sseClients' = sseClients
                   /\ received' = received /\ pubs' = pubs]_vars

C13_Witness ==
    /\ calls[1].op = "record" /\ Inserted(1)
    /\ calls[2].op = "record" /\ Invalid(calls[2]) /\ calls[2].status = 400
    /\ \E c \in Clients : c \in Registered /\ Len(received[c]) >= 2

---------------------------------------------------------------------------
(* Failures of the save and of a delivery *)

\* C14: after the save of a record call has failed, a lookup of the call's
\* pair and session still answers with the record the call inserted
C14_FailedSaveKeepsRecord ==
    \A p \in Calls :
        RecordCall(p) /\ "save" \in hist[p].failed
        => LET answer == LookupNow(calls[p].first, calls[p].second, calls[p].sessionId)
           IN  answer.status = 200 /\ answer.body.result = calls[p].result

\* C15: a record call whose save failed, or during which a delivery to a
\* subscriber failed, is not answered 500
C15_FailureNotReported ==
    \A p \in Calls :
        RecordCall(p) /\ hist[p].failed # {} => calls[p].status # 500

\* C16: every publish reaches each subscriber that was registered at that
\* moment and whose own write does not throw, whatever happens to the others
C16_FanOutIsolated ==
    \A i \in DOMAIN pubs : pubs[i].targets \ pubs[i].throwing \subseteq pubs[i].delivered

\* C17: a subscriber whose delivery failed during a publish is no longer in
\* the registry, and is a target of no later publish
C17_FailedSubscriberDropped ==
    \A i \in DOMAIN pubs :
        /\ pubs[i].failed \cap Registered = {}
        /\ \A j \in DOMAIN pubs : i < j => pubs[i].failed \cap pubs[j].targets = {}

---------------------------------------------------------------------------
(* Events *)

\* the publishes that were written to the client, in order
Stream(c) == SelectSeq(pubs, LAMBDA e : c \in e.delivered)

TypesOf(events) == [i \in DOMAIN events |-> events[i].type]

\* what the client has been written, the connected message apart, is its stream
ReceivedIsStream(c) ==
    SelectSeq(received[c], LAMBDA t : t # "connected") = TypesOf(Stream(c))

\* the messages a finished insertion must have published
Expected(p) ==
    IF Inserted(p) /\ RecordOf(p).wasFirstDiscovery
    THEN <<"combination_added", "first_discovery">>
    ELSE <<"combination_added">>

C18_Published ==
    /\ \A p \in Calls :
           /\ Inserted(p) /\ Done(p) => hist[p].published = Expected(p)
           /\ ~Done(p) => hist[p].published = <<>>
    /\ \A c \in Clients :
           /\ ReceivedIsStream(c)
           /\ \A i, j \in DOMAIN Stream(c) :
                  /\ Stream(c)[i].by = Stream(c)[j].by
                  /\ Stream(c)[i].type = "combination_added"
                  /\ Stream(c)[j].type = "first_discovery"
                  => i < j

\* C18: every insertion that reached the store is followed by the publish
\* of combination_added; first_discovery is published for it exactly when the
\* stored record has wasFirstDiscovery true; and a subscriber that is written
\* both messages of one insertion is written combination_added first
C18_InsertEvents ==
    /\ []C18_Published
    /\ []<>(\A p \in Calls :
               Inserted(p) => Done(p) /\ hist[p].published = Expected(p))

C18_Witness ==
    /\ \E c \in Clients :
           received[c] = <<"connected", "combination_added", "first_discovery", "combination_added">>
    /\ \E p, q \in Calls :
           /\ Inserted(p) /\ Done(p) /\ RecordOf(p).wasFirstDiscovery
           /\ Inserted(q) /\ Done(q) /\ ~RecordOf(q).wasFirstDiscovery

\* how many connected messages the client has been written
Connected(c) == Len(SelectSeq(received[c], LAMBDA t : t = "connected"))

\* C19: a client that has not subscribed is in no registry and has been
\* written nothing; from its subscription on it has been written connected
\* first and exactly once, and it is in the registry while its connection is open
C19_ConnectedFirstOnce ==
    \A c \in Clients :
        /\ conn[c].state = "new" => received[c] = <<>> /\ c \notin Registered
        /\ conn[c].state # "new"
           => /\ received[c] # <<>> /\ received[c][1] = "connected"
              /\ Connected(c) = 1
        /\ conn[c].state = "open" => c \in Registered

C19_Witness ==
    \E c, d \in Clients :
        /\ c # d
        /\ conn[c].state # "new" /\ Len(received[c]) >= 2
        /\ conn[d].state # "new" /\ conn[d].since > conn[c].since

\* the publish was made after the client subscribed and before its close was handled
WhileSubscribed(c, i) ==
    /\ conn[c].state # "new"
    /\ conn[c].since < i
    /\ conn[c].state = "closed" => i <= conn[c].until

\* C20: a publish is written to exactly the clients that had subscribed before
\* it and whose close had not been handled before it, so a client is written
\* nothing published before its subscription or after its close, and the
\* clients that remain are still written every publish
C20_OnlyWhileSubscribed ==
    /\ \A i \in DOMAIN pubs : \A c \in Clients :
           c \in pubs[i].delivered <=> WhileSubscribed(c, i)
    /\ \A c \in Clients : ReceivedIsStream(c)

C20_Witness ==
    \E c, d \in Clients :
        /\ conn[c].state = "closed"
        /\ conn[c].since < conn[c].until /\ conn[c].until < Len(pubs)
        /\ conn[d].state = "open" /\ conn[d].since > 0
        /\ d \in pubs[Len(pubs)].delivered

---------------------------------------------------------------------------
(* The registry *)

Handles(registry) == {registry[i] : i \in DOMAIN registry}

\* C21: removing a handle from the registry leaves a registry without the
\* handle and with every other handle, in the same order; removing it again,
\* or removing a handle that is not registered, changes nothing
C21_UnsubscribeIdempotent ==
    \A c \in Clients :
        LET after == Unregister(sseClients, c)
        IN  /\ Handles(after) = Registered \ {c}
            /\ after = SelectSeq(sseClients, LAMBDA x : x \in Registered \ {c})
            /\ Unregister(after, c) = after
            /\ c \notin Registered => after = sseClients

C21_Witness ==
    \E c, d \in Clients :
        /\ conn[c].state = "closed" /\ c \notin Registered
        /\ d \in Registered

---------------------------------------------------------------------------
(* Keys *)

\* C22: the key of a pair does not depend on the order of the two names, and
\* it is the smaller name, '+', the larger name, in the order of code units
C22_KeySymmetricSorted ==
    keyOut # Null
    => /\ keyOut.key = keyOut.swapped
       /\ \E lo, hi \in {keyIn.first, keyIn.second} :
              /\ {lo, hi} = {keyIn.first, keyIn.second}
              /\ ~StrLess(hi, lo)
              /\ keyOut.key = lo \o <<43>> \o hi

C22_Witness ==
    /\ keyOut # Null
    /\ StrLess(keyIn.second, keyIn.first)
    /\ keyOut.key = keyIn.second \o <<43>> \o keyIn.first

---------------------------------------------------------------------------
(* Reads *)

ReadOps == {"lookup", "list", "check", "firsts", "stats"}

\* the step is a step of the read handler p
ReadStep(p) == calls'[p].op \in ReadOps /\ calls'[p] # calls[p]

\* C23: no step of a read handler removes a record from the file
C23_ReadsDeleteNothing ==
    [][\A p \in Calls :
          ReadStep(p) => \A k \in DOMAIN file : k \in DOMAIN file']_vars

\* C24: what a lookup or a list reads while a record call is writing holds
\* every record the file held before that write, unchanged, and beyond them
\* only whole records of a write in progress
C24_ReadsSeeWholeStore ==
    [][\A p \in Calls :
          calls[p].pc = "idle" /\ calls'[p].op \in {"lookup", "list"}
          => LET seen == hist'[p].seen
             IN  /\ \A k \in DOMAIN file : k \in DOMAIN seen /\ seen[k] = file[k]
                 /\ \A k \in (DOMAIN seen) \ (DOMAIN file) :
                        \E w \in Calls :
                            /\ calls[w].pc = "write"
                            /\ k \in DOMAIN calls[w].combinations
                            /\ seen[k] = calls[w].combinations[k]]_vars

\* the stored records a first-discoveries call read that are flagged
Flagged(p) == {k \in DOMAIN hist[p].seen : hist[p].seen[k].wasFirstDiscovery = TRUE}

\* C25: a first-discoveries call without a sessionId answers with one entry
\* for each flagged record of the store, whatever its session, its count is
\* the number of flagged records, and every entry is that of a flagged record
C25_AllFirstDiscoveries ==
    \A p \in Calls :
        Done(p) /\ calls[p].op = "firsts" /\ calls[p].sessionId = Missing
        => LET entries == calls[p].body.firstDiscoveries
           IN  /\ calls[p].body.count = Cardinality(Flagged(p))
               /\ Cardinality(DOMAIN entries) = Cardinality(Flagged(p))
               /\ \A d \in DOMAIN entries :
                      \E k \in Flagged(p) :
                          /\ entries[d].result = hist[p].seen[k].result
                          /\ entries[d].sessionId = hist[p].seen[k].sessionId

\* C26: a list call with a sessionId answers with the records of that session
\* and no others; without a sessionId it answers with every stored record
C26_ListFiltersBySession ==
    \A p \in Calls :
        Done(p) /\ calls[p].op = "list"
        => LET seen == hist[p].seen
               wanted == IF calls[p].sessionId = Missing THEN DOMAIN seen
                         ELSE {k \in DOMAIN seen : seen[k].sessionId = calls[p].sessionId}
           IN  /\ DOMAIN calls[p].body = wanted
               /\ \A k \in wanted : calls[p].body[k] = seen[k]

\* the step in which a check-first-discovery call is answered
CheckStep(p) == calls[p].pc = "idle" /\ calls'[p].op = "check" /\ calls'[p].pc = "done"

LoadStep(p) == calls[p].pc = "idle" /\ calls'[p].pc # "idle"

MigrationStep(p) == calls[p].pc = "migrate" /\ calls'[p].pc # "migrate"

\* the second store is the first with 'default' in the place of every absent
\* sessionId: the same keys, and every other field as it was
Defaulted(before, after) ==
    /\ DOMAIN after = DOMAIN before
    /\ \A k \in DOMAIN before :
           /\ after[k].sessionId = IF before[k].sessionId = Missing THEN DefaultSession
                                   ELSE before[k].sessionId
           /\ after[k].result = before[k].result
           /\ after[k].emoji = before[k].emoji
           /\ after[k].wasFirstDiscovery = before[k].wasFirstDiscovery
           /\ after[k].discoveredAt = before[k].discoveredAt

\* C30: a load of a file with records that have no sessionId writes the file
\* back once, as the store it read with 'default' in the place of every
\* absent sessionId and nothing else changed, and hands that store to its
\* handler; a load of a file where no sessionId is absent writes nothing
C30_MigrationOnceAndIdempotent ==
    [][\A p \in Calls :
          /\ LoadStep(p)
             => /\ file' = file
                /\ calls'[p].pc = "migrate" <=> hasChanges(file)
          /\ MigrationStep(p)
             => /\ hasChanges(hist[p].seen)
                /\ Defaulted(hist[p].seen, file')
                /\ ~hasChanges(file')
                /\ calls'[p].op = "list" => calls'[p].body = file'
          /\ calls[p].pc \notin {"idle", "migrate"} => calls'[p].pc # "migrate"]_vars

\* a load has migrated a store of a record without and a record with a
\* sessionId, and a later load of the migrated file has been answered
\* without a write
C30_Witness ==
    \E p, q \in Calls :
        /\ Done(p) /\ hasChanges(hist[p].seen)
        /\ \E k \in DOMAIN hist[p].seen : hist[p].seen[k].sessionId = Session1
        /\ Defaulted(hist[p].seen, file)
        /\ Done(q) /\ calls[q].op = "list"
        /\ hist[q].seen = file /\ calls[q].body = file

---------------------------------------------------------------------------
(* First discoveries in the store *)

\* no two record calls have overlapped so far
Sequential == \A p \in Calls : RecordCall(p) => Alone(p)

\* the stored records with the name of record k, up to case
Namesakes(k) == {j \in DOMAIN file : SameName(file[j].result, file[k].result)}

---------------------------------------------------------------------------
(* The auto-save *)

\* the record call has inserted and has been answered
Acknowledged(q) == Succeeded(q) /\ Inserted(q)

\* the step in which the write of an auto-save completes
AutoSaveStep(p) == calls[p].pc = "autowrite" /\ calls'[p].pc = "done"

\* C34: the write of an auto-save leaves the records of the file as they
\* are: no key comes or goes, and the record of every acknowledged insert
\* that is in the file stays in it
C34_AutoSaveKeepsRecords ==
    [][\A p \in Calls :
          AutoSaveStep(p)
          => /\ DOMAIN file' = DOMAIN file
             /\ \A q \in Calls :
                    Acknowledged(q) /\ KeyOf(q) \in DOMAIN file
                    => KeyOf(q) \in DOMAIN file']_vars

---------------------------------------------------------------------------
(* A load that fails *)

\* the step in which the save of record call p writes the file
SaveStep(p) == calls[p].pc \in {"save", "write"} /\ calls'[p].pc = "notify"

\* C35: the save of a record call whose load failed keeps every record of
\* the file, and the call has flagged its record only if the file held no
\* record of that name
C35_FailedLoadLosesNothing ==
    [][\A p \in Calls :
          SaveStep(p) /\ "load" \in hist[p].failed
          => /\ \A k \in DOMAIN file : k \in DOMAIN file' /\ file'[k] = file[k]
             /\ calls[p].isFirstTime
                => \A k \in DOMAIN file : ~SameName(file[k].result, calls[p].result)]_vars

---------------------------------------------------------------------------
(* Storage keys *)

\* the session and the unordered pair of an input of the key functions
Combination(in) == <<in.sessionId, {in.first, in.second}>>

\* C36: the storage key made for a session and a pair is the storage key of
\* no other session and pair
C36_DistinctStorageKeys ==
    keyOut # Null
    => \A other \in KeyInputs :
           Combination(other) # Combination(keyIn)
           => storageKeyOf(other.sessionId, getCombinationKey(other.first, other.second))
              # keyOut.storageKey

---------------------------------------------------------------------------
(* The combination_added event *)

\* how many combination_added messages the client has been written
Added(c) == Len(SelectSeq(received[c], LAMBDA t : t = "combination_added"))

\* the client subscribed before anything was published and is still connected
Continuous(c) == conn[c].state \in {"open", "ended"} /\ conn[c].since = 0

\* C37: every combination_added written to a client is published by a record
\* call that has inserted, and once every insertion has published, a client connected
\* throughout has been written as many combination_added as there are
\* insertions
C37_AddedOnlyOnInsert ==
    /\ \A i \in DOMAIN pubs :
           pubs[i].type = "combination_added" /\ pubs[i].delivered # {}
           => Inserted(pubs[i].by)
    /\ \A c \in Clients :
           Continuous(c) /\ (\A p \in Calls : calls[p].pc # "notify")
           => Added(c) = Cardinality({p \in Calls : Inserted(p)})

---------------------------------------------------------------------------
(* The registry of subscribers *)

\* the clients that have subscribed and whose close has not been handled
Open == {c \in Clients : conn[c].state = "open"}

\* the registry holds exactly the open clients, each once
RegistryIsOpen == Registered = Open /\ Len(sseClients) = Cardinality(Open)

\* the step in which a GET /api/stats is answered
StatsStep(p) == calls[p].pc # "done" /\ calls'[p].op = "stats" /\ calls'[p].pc = "done"

\* C38: the registry holds exactly the clients that have subscribed and whose
\* close has not been handled, each once, and stats answers with their number
C38_RegistryIsOpenClients ==
    [][/\ RegistryIsOpen
       /\ RegistryIsOpen'
       /\ \A p \in Calls :
              StatsStep(p) => calls'[p].body.activeConnections = Cardinality(Open)]_vars

\* stats has answered 1 where one client is subscribed and another has left
C38_Witness ==
    \E p \in Calls, c, d \in Clients :
        /\ Done(p) /\ calls[p].op = "stats" /\ calls[p].body.activeConnections = 1
        /\ conn[c].state = "closed" /\ conn[d].state = "open"
        /\ sseClients = <<d>>

---------------------------------------------------------------------------
(* Properties of the in-memory server (3.js) *)

\* C5: manual add and generate never overwrite the record of a key that
\* already holds one
C5_NeverOverwritten ==
    [][log3'.op \in {"add", "generate"}
       => \A k \in (DOMAIN combinations) \cap (DOMAIN combinations') :
              combinations'[k] = combinations[k]]_vars

\* C9: once records have been deleted, an insertion is stored as a first
\* discovery exactly when no record still in the store has its result
\* (ignoring case), and a delete changes the flag of no remaining record
C9_RecomputedFromStore ==
    [][/\ log3.deletes > 0
          => \A k \in (DOMAIN combinations') \ (DOMAIN combinations) :
                 combinations'[k].firstDiscovery
                 <=> \A j \in DOMAIN combinations :
                         ~SameName(combinations[j].result, combinations'[k].result)
       /\ log3'.op = "delete"
          => \A k \in DOMAIN combinations' :
                 combinations'[k].firstDiscovery = combinations[k].firstDiscovery]_vars

\* the step of a DELETE /api/combinations/:key
DeleteStep == log3'.op = "delete" /\ clock' # clock /\ gens' = gens

\* C28: a delete is answered with success exactly when the key held a record;
\* on success that record and no other is gone, and the file has been saved
C28_DeleteSucceedsIffPresent ==
    [][DeleteStep
       => /\ log3'.status = 200 <=> log3'.key \in DOMAIN combinations
          /\ log3'.status = 200
             => /\ DOMAIN combinations' = (DOMAIN combinations) \ {log3'.key}
                /\ \A k \in DOMAIN combinations' : combinations'[k] = combinations[k]
                /\ dataFile' = combinations']_vars

\* C29: a delete of a key that holds no record is answered not found and
\* changes neither the store, nor the file, nor what any subscriber received
C29_NotFoundChangesNothing ==
    [][DeleteStep /\ log3'.key \notin DOMAIN combinations
       => /\ log3'.status = 404
          /\ combinations' = combinations
          /\ dataFile' = dataFile
          /\ received' = received]_vars

\* the step of a GET /api/check-combination
CheckCombinationStep == log3'.op = "check" /\ clock' # clock /\ gens' = gens

\* C31: while the store is the seeded one, a check-combination of the two
\* items of a basic combination, in either order, answers that it exists
C31_SeededFoundEitherOrder ==
    [][CheckCombinationStep /\ combinations = basicCombinations
       => \A a \in CheckItems, b \in CheckItems :
              Literal(a, b) \in DOMAIN basicCombinations
              /\ log3'.pair \in {<<a, b>>, <<b, a>>}
              => log3'.exists]_vars

\* the step in which a POST /api/generate-combination stores its combination
GenerateStoreStep == log3'.op = "generate" /\ log3'.status = 200 /\ gens' # gens /\ clock' # clock

\* C32: a generated combination is stored with firstDiscovery, and with
\* isNew, true only if no combination in the store before it has its result
C32_DiscoveryFromStore ==
    [][GenerateStoreStep
       => LET stored == combinations'[log3'.key]
          IN  stored.firstDiscovery \/ stored.isNew
              => \A k \in DOMAIN combinations : combinations[k].result # stored.result]_vars

\* the step of a manual add, of the storing half of a generate, or of a
\* delete that found its key
MutationStep ==
    /\ log3'.op \in {"add", "generate", "delete"} /\ log3'.status = 200
    /\ clock' # clock
    /\ Cardinality(gens') <= Cardinality(gens)

\* C39: after a mutation whose save succeeded the file is the map; after one
\* whose save failed the file is as before and the map has the mutation
C39_FileFollowsMap ==
    [][MutationStep
       => /\ log3'.saved => dataFile' = combinations'
          /\ ~log3'.saved
             => /\ dataFile' = dataFile
                /\ log3'.op \in {"add", "generate"} => log3'.key \in DOMAIN combinations'
                /\ log3'.op = "delete" => log3'.key \notin DOMAIN combinations']_vars

\* a save has failed, and the save of a later delete has brought the file
\* back to the map
C39_Witness ==
    /\ log3.failedSaves > 0 /\ log3.saved /\ log3.op = "delete" /\ log3.deletes > 0
    /\ dataFile = combinations
    /\ dataFile # basicCombinations

====
